---- MODULE Spec2Model ----
(***************************************************************************)
(* Model of the Solteq Tand journalising report robot:                     *)
(*   robot_framework/process.py                        process()           *)
(*   robot_framework/subprocesses/list_handler.py      ListHandler         *)
(*   robot_framework/subprocesses/manuel_list_handler.py ManuelListHandler *)
(*                                                                         *)
(* Text (str) is a sequence of atoms: each markup character "<", ">", "&"  *)
(* is an atom of its own, and a run of other characters is one atom, so    *)
(* "<td>" is <<"<", "td", ">">>.  A dict is a sequence of [k, v] entries   *)
(* in insertion order.  A database value is a tagged record [t, s, n].     *)
(***************************************************************************)
EXTENDS Integers, Sequences, FiniteSets, TLC

VARIABLES
    op,          \* the operation that ran last
    outcome,     \* "return" or "raise": how that call ended ("none" at start)
    exc,         \* the exception class the call ended with, or "none"
    fault,       \* the database step that failed in a fetch_data call, or "none"
    input,       \* the row sequence handed to the call (render operations)
    sections,    \* generate_list: per section, the id and the rows fetched
    data,        \* the row sequence the call returned / rendered
    html,        \* the text the call returned
    opened,      \* connections opened during the call
    stillOpen,   \* connections opened during the call and not closed at its end
    log,         \* lines printed during the call
    today,       \* datetime.now() as read by list_items: [ord, sec]
    last_monday, \* list_items: the datetime last_monday
    last_sunday, \* list_items: the datetime last_sunday
    params,      \* list_items: the parameter tuple bound to the query
    pc,          \* process(): "idle", "loop", "done", "raised"
    idx,         \* process(): index into list_types of the next iteration
    sent,        \* process(): the emails handed to smtp_util.send_email
    trace        \* process(): the calls made so far, in order

vars == <<op, outcome, exc, fault, input, sections, data, html, opened,
          stillOpen, log, today, last_monday, last_sunday, params,
          pc, idx, sent, trace>>

procVars == <<pc, idx, sent, trace>>

(***************************************************************************)
(* Bounds of the model.                                                    *)
(***************************************************************************)
MaxRows == 2         \* rows in a result set handed to the renderer
MaxSectionRows == 1  \* rows per webform section inside generate_list
MaxIds == 2          \* active webform ids returned by get_metadata
MaxDayOffset == 7    \* run dates: FirstRunDay .. FirstRunDay + MaxDayOffset

(***************************************************************************)
(* Database values and Python's str() and truth value of them.             *)
(***************************************************************************)
Null == [t |-> "null", s |-> <<>>, n |-> 0]
StrV(atoms) == [t |-> "str", s |-> atoms, n |-> 0]
IntV(i) == [t |-> "int", s |-> <<>>, n |-> i]
DateTimeV(ordinal) == [t |-> "datetime", s |-> <<>>, n |-> ordinal]

\* 2024-12-28 as a proleptic Gregorian ordinal (a Saturday); the run dates
\* start here so that the computed windows cross a month and a year end.
FirstRunDay == 739248

Pad2(i) == IF i < 10 THEN "0" \o ToString(i) ELSE ToString(i)

IsLeap(y) == (y % 4 = 0) /\ ((y % 100 # 0) \/ (y % 400 = 0))

DaysInMonth(y, m) ==
    IF m = 2 THEN (IF IsLeap(y) THEN 29 ELSE 28)
    ELSE IF m \in {4, 6, 9, 11} THEN 30 ELSE 31

\* datetime's ordinal -> (year, month, day), as date.fromordinal computes it.
Ord2Ymd(ordinal) ==
    LET n0   == ordinal - 1
        n400 == n0 \div 146097
        r400 == n0 % 146097
        n100 == r400 \div 36524
        r100 == r400 % 36524
        n4   == r100 \div 1461
        r4   == r100 % 1461
        n1   == r4 \div 365
        r1   == r4 % 365
        year == n400 * 400 + n100 * 100 + n4 * 4 + n1 + 1
        month == CHOOSE m \in 1..12 :
                   LET before == IF m = 1 THEN 0
                                 ELSE LET S[k \in 0..12] ==
                                            IF k = 0 THEN 0
                                            ELSE S[k - 1] + DaysInMonth(year, k)
                                      IN  S[m - 1]
                   IN  before <= r1 /\ r1 < before + DaysInMonth(year, m)
        before == LET S[k \in 0..12] ==
                        IF k = 0 THEN 0 ELSE S[k - 1] + DaysInMonth(year, k)
                  IN  S[month - 1]
    IN  IF n1 = 4 \/ n100 = 4
        THEN [y |-> year - 1, m |-> 12, d |-> 31]
        ELSE [y |-> year, m |-> month, d |-> r1 - before + 1]

\* strftime('%Y-%m-%d') of a datetime [ord, sec]: the time of day is dropped.
StrftimeYmd(dt) ==
    LET c == Ord2Ymd(dt.ord)
    IN  ToString(c.y) \o "-" \o Pad2(c.m) \o "-" \o Pad2(c.d)

\* strftime("%d-%m-%y")
StrftimeDmy(dt) ==
    LET c == Ord2Ymd(dt.ord)
    IN  Pad2(c.d) \o "-" \o Pad2(c.m) \o "-" \o Pad2(c.y % 100)

\* str(value) as the f-strings f'{value}' format it.
PyStr(v) ==
    CASE v.t = "null"     -> <<"None">>
      [] v.t = "str"      -> v.s
      [] v.t = "int"      -> <<ToString(v.n)>>
      [] v.t = "datetime" -> <<StrftimeYmd([ord |-> v.n, sec |-> 0]) \o " 00:00:00">>

\* bool(value): None, '' and 0 are falsy, a datetime is always truthy.
Truthy(v) ==
    CASE v.t = "null"     -> FALSE
      [] v.t = "str"      -> v.s # <<>>
      [] v.t = "int"      -> v.n # 0
      [] v.t = "datetime" -> TRUE

(***************************************************************************)
(* dict: a sequence of entries [k, v] in insertion order.                  *)
(***************************************************************************)
Keys(row) == [i \in 1..Len(row) |-> row[i].k]

Values(row) == [i \in 1..Len(row) |-> row[i].v]

HasKey(row, key) == \E i \in 1..Len(row) : row[i].k = key

\* row[key] for a key the row has
Item(row, key) == row[CHOOSE i \in 1..Len(row) : row[i].k = key].v

\* row.get(key, default)
Get(row, key, default) == IF HasKey(row, key) THEN Item(row, key) ELSE default

\* d[key] = value: replaces in place, or appends a new entry
SetItem(row, key, value) ==
    IF HasKey(row, key)
    THEN [i \in 1..Len(row) |->
            IF row[i].k = key THEN [k |-> key, v |-> value] ELSE row[i]]
    ELSE Append(row, [k |-> key, v |-> value])

Min(a, b) == IF a < b THEN a ELSE b

\* dict(zip(columns, row))
RECURSIVE DictZipFrom(_, _, _, _)
DictZipFrom(columns, tuple, i, acc) ==
    IF i > Min(Len(columns), Len(tuple)) THEN acc
    ELSE DictZipFrom(columns, tuple, i + 1, SetItem(acc, columns[i], tuple[i]))

DictZip(columns, tuple) == DictZipFrom(columns, tuple, 1, <<>>)

(***************************************************************************)
(* Text helpers.                                                           *)
(***************************************************************************)
\* ''.join(parts)
RECURSIVE Join(_)
Join(parts) == IF parts = <<>> THEN <<>> ELSE Head(parts) \o Join(Tail(parts))

Tag(name) == <<"<", name, ">">>

\* whether text p occurs in text s at position i
OccursAt(s, p, i) == i + Len(p) - 1 <= Len(s) /\ SubSeq(s, i, i + Len(p) - 1) = p

Contains(s, p) == \E i \in 1..Len(s) : OccursAt(s, p, i)

Count(s, p) == Cardinality({i \in 1..Len(s) : OccursAt(s, p, i)})

(***************************************************************************)
(* What the database answers to one statement: the step that fails (or     *)
(* "none"), and, when none fails, cursor.description and fetchall().       *)
(***************************************************************************)
Faults == {"none", "connect", "execute", "fetchall"}

Answer(columns, results) == [fault |-> "none", columns |-> columns, results |-> results]

Failure(f) == [fault |-> f, columns |-> <<>>, results |-> <<>>]

Failures == {Failure(f) : f \in Faults \ {"none"}}

\* [dict(zip(columns, row)) for row in results]
ZipRows(columns, results) ==
    [i \in 1..Len(results) |-> DictZip(columns, results[i])]

\* ListHandler.fetch_data: try / except pyodbc.Error / finally conn.close()
ListFetchData(reply) ==
    LET connected == reply.fault # "connect"
        \* the try body, and the except clause's print and return []
        tried == IF reply.fault = "none"
                 THEN [data |-> ZipRows(reply.columns, reply.results), log |-> <<>>]
                 ELSE [data |-> <<>>, log |-> <<"Database error:">>]
    IN  \* finally: conn.close(); conn is unbound when connect() raised
        IF connected
        THEN [outcome |-> "return", exc |-> "none", data |-> tried.data,
              opened |-> 1, stillOpen |-> 0, log |-> tried.log]
        ELSE [outcome |-> "raise", exc |-> "UnboundLocalError", data |-> <<>>,
              opened |-> 0, stillOpen |-> 0, log |-> tried.log]

\* ManuelListHandler.fetch_data: no try; conn.close() follows fetchall()
ManuelFetchData(reply) ==
    CASE reply.fault = "connect" ->
            [outcome |-> "raise", exc |-> "pyodbc.Error", data |-> <<>>,
             opened |-> 0, stillOpen |-> 0, log |-> <<>>]
      [] reply.fault \in {"execute", "fetchall"} ->
            [outcome |-> "raise", exc |-> "pyodbc.Error", data |-> <<>>,
             opened |-> 1, stillOpen |-> 1, log |-> <<>>]
      [] reply.fault = "none" ->
            [outcome |-> "return", exc |-> "none",
             data |-> ZipRows(reply.columns, reply.results),
             opened |-> 1, stillOpen |-> 0, log |-> <<>>]

(***************************************************************************)
(* ListHandler.list_items: the previous Monday..Sunday window.             *)
(***************************************************************************)
\* datetime.weekday(): Monday is 0
Weekday(dt) == (dt.ord + 6) % 7

\* dt - timedelta(days=k) / dt + timedelta(days=k): the time of day is kept
MinusDays(dt, k) == [ord |-> dt.ord - k, sec |-> dt.sec]

PlusDays(dt, k) == [ord |-> dt.ord + k, sec |-> dt.sec]

\* a slip that would stay in the current week: the + 7 is dropped
LastMondayThisWeek(now) == MinusDays(now, Weekday(now))

LastMonday(now) == MinusDays(now, Weekday(now) + 7)

LastSunday(now) == PlusDays(LastMonday(now), 6)

ListItemsParams(now, os2form_webform_id) ==
    <<os2form_webform_id, StrftimeYmd(LastMonday(now)), StrftimeYmd(LastSunday(now))>>

\* list_items returns what fetch_data returns (or raises what it raises)
ListItems(now, os2form_webform_id, reply) == ListFetchData(reply)

(***************************************************************************)
(* ListHandler.filter_empty_columns                                        *)
(***************************************************************************)
KeysToRemove(rows) ==
    {Keys(rows[1])[j] : j \in
        {j \in 1..Len(rows[1]) :
            \A i \in 1..Len(rows) : ~Truthy(Get(rows[i], Keys(rows[1])[j], Null))}}

FilterRow(row, keys_to_remove) ==
    LET Keep(e) == e.k \notin keys_to_remove IN SelectSeq(row, Keep)

FilterEmptyColumns(rows) ==
    IF rows = <<>> THEN rows
    ELSE LET keys_to_remove == KeysToRemove(rows)
         IN  [i \in 1..Len(rows) |-> FilterRow(rows[i], keys_to_remove)]

(***************************************************************************)
(* convert_to_html_table (the two handlers carry the same code)            *)
(***************************************************************************)
Placeholder == Tag("p") \o <<"Fandt ingen rækker. Ingen data tilgængelig.">> \o Tag("/p")

\* f'<th>{header}</th>'
HeaderCell(header) == Tag("th") \o <<header>> \o Tag("/th")

\* f'<td>{value}</td>'
ValueCell(value) == Tag("td") \o PyStr(value) \o Tag("/td")

\* a slip that would emit the cells in another order than the headers
RowHtmlReversed(row) ==
    Tag("tr")
    \o Join([j \in 1..Len(row) |-> ValueCell(Values(row)[Len(row) + 1 - j])])
    \o Tag("/tr")

\* '<tr>' + ''.join(f'<td>{value}</td>' for value in row.values()) + '</tr>'
RowHtml(row) ==
    Tag("tr") \o Join([j \in 1..Len(row) |-> ValueCell(Values(row)[j])]) \o Tag("/tr")

TableHtml(rows) ==
    LET headers == Keys(rows[1])
        header_html == Join([j \in 1..Len(headers) |-> HeaderCell(headers[j])])
        rows_html == Join([i \in 1..Len(rows) |-> RowHtml(rows[i])])
    IN  Tag("table") \o Tag("thead") \o Tag("tr") \o header_html \o Tag("/tr")
        \o Tag("/thead") \o Tag("tbody") \o rows_html \o Tag("/tbody") \o Tag("/table")

ConvertToHtmlTable(rows) == IF rows = <<>> THEN Placeholder ELSE TableHtml(rows)

ManuelConvertToHtmlTable(rows) == IF rows = <<>> THEN Placeholder ELSE TableHtml(rows)

(***************************************************************************)
(* generate_list                                                           *)
(***************************************************************************)
StyleSheet ==
    <<"table, th, td { border: 1px solid black; border-collapse: collapse; padding: 8px; font-size: 12px; } h3 { font-size: 16px; } body { font-size: 12px; }">>

TemplateHead ==
    Tag("html") \o Tag("head") \o Tag("style") \o StyleSheet \o Tag("/style")
    \o Tag("/head") \o Tag("body")

TemplateTail == Tag("/body") \o Tag("/html")

\* Template(html_template).render(all_tables=all_tables): {{ all_tables | safe }}
ListRenderTemplate(all_tables) == TemplateHead \o all_tables \o TemplateTail

\* list_items[0].get('description', f"Webform ID: {current_id}"), then formatted
DescriptionHeader(list_items, current_id) ==
    IF HasKey(list_items[1], "description")
    THEN PyStr(Item(list_items[1], "description"))
    ELSE <<"Webform ID: ">> \o PyStr(current_id)

\* a slip that would render an empty section instead of skipping it
ListSectionHtmlNoSkip(current_id, list_items) ==
    LET filtered == FilterEmptyColumns(list_items)
    IN  Tag("h3")
        \o (IF filtered = <<>> THEN <<"Webform ID: ">> \o PyStr(current_id)
            ELSE DescriptionHeader(filtered, current_id))
        \o Tag("/h3") \o ConvertToHtmlTable(filtered) \o Tag("br")

\* the part of one loop iteration of ListHandler.generate_list after
\* list_items returned: what it appends to all_tables
ListSectionHtml(current_id, list_items) ==
    IF list_items = <<>> THEN <<>>   \* if not list_items: continue
    ELSE LET filtered == FilterEmptyColumns(list_items)
         IN  Tag("h3") \o DescriptionHeader(filtered, current_id) \o Tag("/h3")
             \o ConvertToHtmlTable(filtered)
             \o Tag("br")

\* the loop over the metadata items; stops at the first list_items that raises
RECURSIVE ListGenerateLoop(_, _, _, _, _)
ListGenerateLoop(metadata, replies, now, i, acc) ==
    IF i > Len(metadata) THEN acc
    ELSE LET current_id == Item(metadata[i], "os2formWebformId")
             r == ListItems(now, current_id, replies[i])
             printed == Append(acc.log, "Behandler os2formWebformId:") \o r.log
         IN  IF r.outcome = "raise"
             THEN [acc EXCEPT !.outcome = "raise", !.exc = r.exc,
                              !.opened = @ + r.opened,
                              !.stillOpen = @ + r.stillOpen,
                              !.log = printed]
             ELSE ListGenerateLoop(metadata, replies, now, i + 1,
                    [acc EXCEPT !.opened = @ + r.opened,
                                !.stillOpen = @ + r.stillOpen,
                                !.log = printed,
                                !.sections = Append(@, [id |-> current_id, rows |-> r.data]),
                                !.all_tables = @ \o ListSectionHtml(current_id, r.data)])

\* ListHandler.generate_list
ListGenerateList(metaReply, replies, now) ==
    LET m == ListFetchData(metaReply)   \* get_metadata
        start == [outcome |-> m.outcome, exc |-> m.exc, opened |-> m.opened,
                  stillOpen |-> m.stillOpen, log |-> m.log, sections |-> <<>>,
                  all_tables |-> <<>>]
        end == IF m.outcome = "raise" THEN start
               ELSE ListGenerateLoop(m.data, replies, now, 1, start)
    IN  [outcome |-> end.outcome, exc |-> end.exc, opened |-> end.opened,
         stillOpen |-> end.stillOpen, log |-> end.log, sections |-> end.sections,
         html |-> IF end.outcome = "raise" THEN <<>>
                  ELSE ListRenderTemplate(end.all_tables)]

\* Template(html_template).render(manuel_list_items_table=...)
ManuelRenderTemplate(manuel_list_items_table) ==
    TemplateHead \o Tag("h3") \o <<"Manuel liste">> \o Tag("/h3")
    \o manuel_list_items_table \o TemplateTail

\* ManuelListHandler.generate_list (manuel_list_items is one fetch_data call)
ManuelGenerateList(reply) ==
    LET r == ManuelFetchData(reply)
    IN  [outcome |-> r.outcome, exc |-> r.exc, opened |-> r.opened,
         stillOpen |-> r.stillOpen, log |-> r.log,
         sections |-> IF r.outcome = "raise" THEN <<>>
                      ELSE <<[id |-> StrV(<<"Manuel liste">>), rows |-> r.data]>>,
         html |-> IF r.outcome = "raise" THEN <<>>
                  ELSE ManuelRenderTemplate(ManuelConvertToHtmlTable(r.data))]

(***************************************************************************)
(* process()                                                               *)
(***************************************************************************)
list_types == <<"manuel", "successful">>

\* ListHandler(*args): __init__(self, rpa_db_connection_string) binds exactly
\* one positional argument; any other count is a TypeError
ListHandlerInit(args) ==
    IF Len(args) = 1
    THEN [ok |-> TRUE, exc |-> "none", connection_string |-> args[1]]
    ELSE [ok |-> FALSE, exc |-> "TypeError", connection_string |-> ""]

\* html_content, title = <value>: unpacking the str generate_list returns
\* succeeds only for a str of exactly two characters
Unpack2(text) ==
    IF Len(text) = 2
    THEN [ok |-> TRUE, exc |-> "none", html_content |-> <<text[1]>>, title |-> <<text[2]>>]
    ELSE [ok |-> FALSE, exc |-> "ValueError", html_content |-> <<>>, title |-> <<>>]

\* f"Journalisering - Solteq Tand - {title} d. {now}"
Subject(title, now) ==
    <<"Journalisering - Solteq Tand - ">> \o title \o <<" d. ", StrftimeDmy(now)>>

\* a slip that would swallow the exception and go on with the next list type
SkipAndContinue(e, i) ==
    [pc |-> IF i < Len(list_types) THEN "loop" ELSE "done", idx |-> i + 1, exc |-> "none"]

\* an exception raised in the loop body leaves process(): the constructor call
\* is outside the try, and the except clause re-raises
Propagate(e, i) == [pc |-> "raised", idx |-> i, exc |-> e]

\* the loop goes on to the next list type, or ends
Advance(i) == [pc |-> IF i < Len(list_types) THEN "loop" ELSE "done",
               idx |-> i + 1, exc |-> "none"]

Event(call, list_type) == [call |-> call, list_type |-> list_type]

(***************************************************************************)
(* Inputs.                                                                 *)
(***************************************************************************)
\* the values a column of the reporting views can hold
ColumnValues(column) ==
    CASE column = "Navn"          -> {StrV(<<>>), StrV(<<"A">>)}
      [] column = "CPR"           -> {Null, StrV(<<>>), StrV(<<"123">>)}
      [] column = "Samletaccept"  -> {Null, IntV(0), IntV(1)}
      [] column = "Indsendt dato" -> {Null, DateTimeV(FirstRunDay)}
      [] column = "description"   -> {Null, StrV(<<"<", "script", ">">>)}

Projections ==
    {<<"Navn", "CPR">>, <<"CPR", "Samletaccept">>, <<"Indsendt dato", "Samletaccept">>}

\* the tuples cursor.fetchall() can return for the given columns
ResultRows(columns) ==
    {t \in [1..Len(columns) -> UNION {ColumnValues(columns[j]) : j \in 1..Len(columns)}] :
        \A j \in 1..Len(columns) : t[j] \in ColumnValues(columns[j])}

\* the result sets of at most n rows over the given columns
ResultSets(columns, n) == UNION {[1..r -> ResultRows(columns)] : r \in 0..n}

\* row sequences as fetch_data builds them: every row has the same keys
Tables ==
    UNION {{ZipRows(c, rs) : rs \in ResultSets(c, MaxRows)} : c \in Projections}

\* row sequences a caller can hand to the public methods directly: each row
\* a dict of its own
LooseValues == {Null, StrV(<<"A">>)}

LooseRows ==
    UNION {{DictZip(c, t) : t \in [1..Len(c) -> LooseValues]} :
             c \in {<<>>, <<"Navn">>, <<"CPR">>, <<"Navn", "CPR">>, <<"CPR", "Navn">>}}

LooseTables == UNION {[1..r -> LooseRows] : r \in 0..MaxRows}

RenderInputs == Tables \cup LooseTables

SectionColumns == <<"description">>

SectionReplies ==
    {Answer(SectionColumns, rs) : rs \in ResultSets(SectionColumns, MaxSectionRows)}
    \cup Failures

WebformIds == <<StrV(<<"tandpleje_0_17">>), StrV(<<"tandpleje_18_21">>),
                StrV(<<"tandpleje_22">>), StrV(<<"tandpleje_23">>)>>

MetadataReplies ==
    {Answer(<<"os2formWebformId">>, [i \in 1..n |-> <<WebformIds[i]>>]) : n \in 0..MaxIds}
    \cup Failures

RunDates ==
    {[ord |-> FirstRunDay + k, sec |-> s] : k \in 0..MaxDayOffset, s \in {0, 86399}}

NoDate == [ord |-> 0, sec |-> 0]

(***************************************************************************)
(* State machine.  A call is one step; the variables hold what the last    *)
(* call was given and how it ended.                                        *)
(***************************************************************************)
Init ==
    /\ op = "none" /\ outcome = "none" /\ exc = "none" /\ fault = "none"
    /\ input = <<>> /\ sections = <<>> /\ data = <<>> /\ html = <<>>
    /\ opened = 0 /\ stillOpen = 0 /\ log = <<>>
    /\ today = NoDate /\ last_monday = NoDate /\ last_sunday = NoDate
    /\ params = <<>>
    /\ pc = "idle" /\ idx = 0 /\ sent = <<>> /\ trace = <<>>

\* no call has been made yet: every call is observed on its own, since the
\* handlers keep no state between calls
Idle == pc = "idle" /\ op = "none"

NoClock ==
    /\ today' = NoDate /\ last_monday' = NoDate /\ last_sunday' = NoDate
    /\ params' = <<>>

Clock(now, os2form_webform_id) ==
    /\ today' = now
    /\ last_monday' = LastMonday(now)
    /\ last_sunday' = LastSunday(now)
    /\ params' = ListItemsParams(now, os2form_webform_id)

\* a fetch_data / list_items call and its result r
Fetched(name, reply, r) ==
    /\ op' = name /\ outcome' = r.outcome /\ exc' = r.exc /\ fault' = reply.fault
    /\ input' = <<>> /\ sections' = <<>> /\ data' = r.data /\ html' = <<>>
    /\ opened' = r.opened /\ stillOpen' = r.stillOpen /\ log' = r.log

\* a rendering call on rows d that produced rows out and text h
Rendered(name, d, out, h) ==
    /\ op' = name /\ outcome' = "return" /\ exc' = "none" /\ fault' = "none"
    /\ input' = d /\ sections' = <<>> /\ data' = out /\ html' = h
    /\ opened' = 0 /\ stillOpen' = 0 /\ log' = <<>>

\* a generate_list call and its result g
Generated(name, g) ==
    /\ op' = name /\ outcome' = g.outcome /\ exc' = g.exc /\ fault' = "none"
    /\ input' = <<>> /\ sections' = g.sections /\ data' = <<>> /\ html' = g.html
    /\ opened' = g.opened /\ stillOpen' = g.stillOpen /\ log' = g.log

Call_ListHandler_fetch_data ==
    /\ Idle
    /\ \E reply \in SectionReplies \cup MetadataReplies :
          Fetched("ListHandler.fetch_data", reply, ListFetchData(reply))
    /\ NoClock
    /\ UNCHANGED procVars

Call_ManuelListHandler_fetch_data ==
    /\ Idle
    /\ \E reply \in SectionReplies :
          Fetched("ManuelListHandler.fetch_data", reply, ManuelFetchData(reply))
    /\ NoClock
    /\ UNCHANGED procVars

Call_list_items ==
    /\ Idle
    /\ \E now \in RunDates, i \in 1..Len(WebformIds), reply \in SectionReplies :
          /\ Fetched("ListHandler.list_items", reply, ListItems(now, WebformIds[i], reply))
          /\ Clock(now, WebformIds[i])
    /\ UNCHANGED procVars

\* filter_empty_columns followed by convert_to_html_table, as generate_list
\* chains them
Call_filter_and_convert ==
    /\ Idle
    /\ \E d \in RenderInputs :
          Rendered("ListHandler.filter+convert", d, FilterEmptyColumns(d),
                   ConvertToHtmlTable(FilterEmptyColumns(d)))
    /\ NoClock
    /\ UNCHANGED procVars

Call_Manuel_convert_to_html_table ==
    /\ Idle
    /\ \E d \in RenderInputs :
          Rendered("ManuelListHandler.convert_to_html_table", d, d,
                   ManuelConvertToHtmlTable(d))
    /\ NoClock
    /\ UNCHANGED procVars

Call_ListHandler_generate_list ==
    /\ Idle
    /\ \E metaReply \in MetadataReplies :
         \E replies \in [1..Len(metaReply.results) -> SectionReplies] :
           \E now \in RunDates :
             /\ Generated("ListHandler.generate_list",
                          ListGenerateList(metaReply, replies, now))
             /\ IF metaReply.results = <<>> THEN NoClock
                ELSE Clock(now, metaReply.results[Len(metaReply.results)][1])
    /\ UNCHANGED procVars

Call_ManuelListHandler_generate_list ==
    /\ Idle
    /\ \E reply \in SectionReplies :
          Generated("ManuelListHandler.generate_list", ManuelGenerateList(reply))
    /\ NoClock
    /\ UNCHANGED procVars

\* process(), lines 12-17
ProcessStart ==
    /\ Idle
    /\ pc' = "loop" /\ idx' = 1 /\ sent' = <<>>
    /\ trace' = <<Event("log_trace", "")>>
    /\ op' = "process" /\ outcome' = "none" /\ exc' = "none" /\ fault' = "none"
    /\ input' = <<>> /\ sections' = <<>> /\ data' = <<>> /\ html' = <<>>
    /\ opened' = 0 /\ stillOpen' = 0 /\ log' = <<>>
    /\ NoClock

\* an iteration that ends in exception e after the calls in events
ProcessFailed(i, list_type, e, events, g) ==
    [step |-> Propagate(e, i), events |-> Append(events, Event("raise", list_type)),
     mails |-> <<>>, g |-> g]

\* the calls every iteration makes up to and including generate_list
ProcessCalled(list_type) ==
    <<Event("ListHandler", list_type), Event("log_trace", list_type),
      Event("generate_list", list_type)>>

\* lines 26-41: the unpacked result u of generate_list is mailed
ProcessSend(i, list_type, g, u, now, mail) ==
    IF mail # "ok"
    THEN ProcessFailed(i, list_type, mail,
                       Append(ProcessCalled(list_type), Event("send_email", list_type)), g)
    ELSE [step |-> Advance(i),
          events |-> ProcessCalled(list_type)
                     \o <<Event("send_email", list_type), Event("log_trace", list_type)>>,
          mails |-> <<[list_type |-> list_type, subject |-> Subject(u.title, now),
                       body |-> u.html_content]>>,
          g |-> g]

\* the try body of one iteration (lines 23-41), the handler constructed and
\* generate_list ended as g: what the iteration leaves behind
ProcessTry(i, list_type, g, now, mail) ==
    IF g.outcome = "raise"
    THEN ProcessFailed(i, list_type, g.exc, ProcessCalled(list_type), g)
    ELSE IF ~Unpack2(g.html).ok
    THEN ProcessFailed(i, list_type, Unpack2(g.html).exc, ProcessCalled(list_type), g)
    ELSE ProcessSend(i, list_type, g, Unpack2(g.html), now, mail)

\* one iteration in which the constructor call of line 20 raised
ProcessConstructFailed(i, list_type, e) ==
    [step |-> Propagate(e, i),
     events |-> <<Event("ListHandler", list_type), Event("raise", list_type)>>,
     mails |-> <<>>,
     g |-> [outcome |-> "raise", exc |-> e, opened |-> 0, stillOpen |-> 0,
            log |-> <<>>, sections |-> <<>>, html |-> <<>>]]

ProcessLeaves(r) ==
    /\ pc' = r.step.pc /\ idx' = r.step.idx /\ exc' = r.step.exc
    /\ outcome' = (IF r.step.pc = "raised" THEN "raise"
                   ELSE IF r.step.pc = "done" THEN "return" ELSE "none")
    /\ trace' = trace \o r.events
    /\ sent' = sent \o r.mails
    /\ op' = "process" /\ fault' = "none" /\ input' = <<>> /\ data' = <<>>
    /\ sections' = r.g.sections /\ html' = r.g.html
    /\ opened' = r.g.opened /\ stillOpen' = r.g.stillOpen /\ log' = r.g.log
    /\ NoClock

\* process(), one iteration of the loop over list_types (lines 19-44)
ProcessIteration ==
    /\ pc = "loop"
    /\ IF ~ListHandlerInit(<<"DbConnectionString", list_types[idx]>>).ok
       THEN ProcessLeaves(ProcessConstructFailed(idx, list_types[idx],
                ListHandlerInit(<<"DbConnectionString", list_types[idx]>>).exc))
       ELSE \E metaReply \in MetadataReplies, now \in RunDates, mail \in {"ok", "SMTPException"} :
              \E replies \in [1..Len(metaReply.results) -> SectionReplies] :
                 ProcessLeaves(ProcessTry(idx, list_types[idx],
                     ListGenerateList(metaReply, replies, now), now, mail))

Next ==
    \/ Call_ListHandler_fetch_data
    \/ Call_ManuelListHandler_fetch_data
    \/ Call_list_items
    \/ Call_filter_and_convert
    \/ Call_Manuel_convert_to_html_table
    \/ Call_ListHandler_generate_list
    \/ Call_ManuelListHandler_generate_list
    \/ ProcessStart
    \/ ProcessIteration

Spec == Init /\ [][Next]_vars

(***************************************************************************)
(* Reading a rendered document back: the texts enclosed by a pair of tags. *)
(***************************************************************************)
Range(f) == {f[i] : i \in DOMAIN f}

\* the least position >= i at which p occurs in s, or 0
RECURSIVE FindFrom(_, _, _)
FindFrom(s, p, i) ==
    IF i > Len(s) THEN 0
    ELSE IF OccursAt(s, p, i) THEN i
    ELSE FindFrom(s, p, i + 1)

RECURSIVE Elements(_, _, _, _)
Elements(s, open, close, i) ==
    LET a == FindFrom(s, open, i)
        b == IF a = 0 THEN 0 ELSE FindFrom(s, close, a + Len(open))
    IN  IF a = 0 \/ b = 0 THEN <<>>
        ELSE <<SubSeq(s, a + Len(open), b - 1)>> \o Elements(s, open, close, b + Len(close))

HeaderTexts(h) == Elements(h, Tag("th"), Tag("/th"), 1)

BodyRows(h) ==
    LET body == Elements(h, Tag("tbody"), Tag("/tbody"), 1)
    IN  IF body = <<>> THEN <<>> ELSE Elements(body[1], Tag("tr"), Tag("/tr"), 1)

Cells(tr) == Elements(tr, Tag("td"), Tag("/td"), 1)

IsEmptyValue(v) == v = Null \/ v = StrV(<<>>)

\* every row has the keys of the first row, in the same order
SameKeys(rows) == \A i \in 1..Len(rows) : Keys(rows[i]) = Keys(rows[1])

FetchOps == {"ListHandler.fetch_data", "ManuelListHandler.fetch_data"}

GenerateOps == {"ListHandler.generate_list", "ManuelListHandler.generate_list"}

RenderOps == {"ListHandler.filter+convert", "ManuelListHandler.convert_to_html_table"}

(***************************************************************************)
(* C1.  Every fetch_data call opens one connection and has closed it when  *)
(* the call ends, however it ends; no call leaves a connection open, and   *)
(* none fails releasing a connection that was never opened.                *)
(***************************************************************************)
C1_ConnectionReleased ==
    op \in FetchOps =>
        /\ stillOpen = 0
        /\ opened <= 1
        /\ (fault # "connect" => opened = 1)
        /\ exc # "UnboundLocalError"

(***************************************************************************)
(* C7.  A fetch_data call in which a database step failed either raises    *)
(* that database error or returns an empty sequence after logging; it ends *)
(* with no other exception.                                                *)
(***************************************************************************)
C7_DatabaseErrorOutcome ==
    (op \in FetchOps /\ fault # "none") =>
        \/ outcome = "raise" /\ exc = "pyodbc.Error"
        \/ outcome = "return" /\ data = <<>> /\ log # <<>>

(***************************************************************************)
(* C4.  After filter_empty_columns and convert_to_html_table on a          *)
(* non-empty result set, a column is missing from the rendered headers     *)
(* exactly when its value is null or the empty string in every row.        *)
(***************************************************************************)
C4_ColumnOmittedIffAllEmpty ==
    (op = "ListHandler.filter+convert" /\ input # <<>> /\ SameKeys(input)) =>
        \A j \in 1..Len(input[1]) :
            LET key == Keys(input[1])[j]
            IN  (<<key>> \notin Range(HeaderTexts(html)))
                <=> (\A i \in 1..Len(input) : IsEmptyValue(Item(input[i], key)))

(***************************************************************************)
(* C8.  In a rendered table, a cell of a retained column whose value is    *)
(* null or the empty string is a blank cell <td></td>.                     *)
(***************************************************************************)
C8_EmptyCellBlank ==
    (op = "ListHandler.filter+convert" /\ data # <<>> /\ SameKeys(data)) =>
        \A i \in 1..Len(data) : \A j \in 1..Len(data[i]) :
            IsEmptyValue(data[i][j].v) =>
                /\ Len(BodyRows(html)) = Len(data)
                /\ Len(Cells(BodyRows(html)[i])) = Len(data[i])
                /\ Cells(BodyRows(html)[i])[j] = <<>>

(***************************************************************************)
(* C9.  Original statement: for every non-empty row sequence, also one     *)
(* whose later rows differ from the first in key set or key order, the     *)
(* headers are the first row's keys, there is one table row per Row, and   *)
(* every table row has one cell per header, the j-th being that Row's      *)
(* value for the j-th header.                                              *)
(***************************************************************************)
HeadersAreFirstRowKeys ==
    HeaderTexts(html) = [j \in 1..Len(data[1]) |-> <<Keys(data[1])[j]>>]

C9_CellsFollowHeaders ==
    (op \in RenderOps /\ data # <<>>) =>
        /\ HeadersAreFirstRowKeys
        /\ Len(BodyRows(html)) = Len(data)
        /\ \A i \in 1..Len(data) :
              LET cells == Cells(BodyRows(html)[i])
              IN  /\ Len(cells) = Len(data[1])
                  /\ \A j \in 1..Len(data[1]) :
                        /\ HasKey(data[i], Keys(data[1])[j])
                        /\ cells[j] = PyStr(Item(data[i], Keys(data[1])[j]))

(***************************************************************************)
(* C9 as amended.  The headers are the first row's keys in their order,    *)
(* there is one table row per Row in input order, and the cells of a table *)
(* row are that Row's own values in that Row's own order; so when every    *)
(* row has the first row's keys in the same order, every table row has one *)
(* cell per header, the j-th being the Row's value for the j-th header.    *)
(***************************************************************************)
C9_CellsFollowOwnRow ==
    (op \in RenderOps /\ data # <<>>) =>
        /\ HeadersAreFirstRowKeys
        /\ Len(BodyRows(html)) = Len(data)
        /\ \A i \in 1..Len(data) :
              LET cells == Cells(BodyRows(html)[i])
              IN  /\ cells = [j \in 1..Len(data[i]) |-> PyStr(Values(data[i])[j])]
                  /\ SameKeys(data) =>
                        /\ Len(cells) = Len(data[1])
                        /\ \A j \in 1..Len(data[1]) :
                              cells[j] = PyStr(Item(data[i], Keys(data[1])[j]))

C9_Witness ==
    /\ op \in RenderOps /\ Len(data) = 2 /\ Len(data[1]) = 2 /\ SameKeys(data)
    /\ data[1][1].v # data[1][2].v /\ data[2][1].v # data[2][2].v

(***************************************************************************)
(* C3.  Original statement: for every section with no rows the document    *)
(* generate_list returns holds the placeholder notice and no table, in     *)
(* both handlers.                                                          *)
(***************************************************************************)
EmptySections == {i \in 1..Len(sections) : sections[i].rows = <<>>}

FilledSections == {i \in 1..Len(sections) : sections[i].rows # <<>>}

C3_PlaceholderPerEmptySection ==
    (op \in GenerateOps /\ outcome = "return") =>
        /\ Count(html, Placeholder) = Cardinality(EmptySections)
        /\ Count(html, Tag("table")) = Cardinality(FilledSections)

(***************************************************************************)
(* C3 as amended.  convert_to_html_table returns the placeholder notice,   *)
(* and no table, for an empty row sequence.  ManuelListHandler's document  *)
(* holds that notice and no table when its one section is empty.           *)
(* ListHandler.generate_list leaves a webform-id section with no rows out  *)
(* of the document altogether: no heading, no notice, no table.            *)
(***************************************************************************)
C3_EmptySectionRendering ==
    /\ (op \in RenderOps /\ data = <<>>) => html = Placeholder
    /\ (op = "ManuelListHandler.generate_list" /\ outcome = "return") =>
          /\ Count(html, Placeholder) = Cardinality(EmptySections)
          /\ Count(html, Tag("table")) = Cardinality(FilledSections)
    /\ (op = "ListHandler.generate_list" /\ outcome = "return") =>
          /\ Count(html, Placeholder) = 0
          /\ Count(html, Tag("table")) = Cardinality(FilledSections)
          /\ Count(html, Tag("h3")) = Cardinality(FilledSections)

C3_Witness ==
    /\ op = "ListHandler.generate_list" /\ outcome = "return"
    /\ EmptySections # {} /\ FilledSections # {}

(***************************************************************************)
(* C5.  For every run date and time of day, last_monday is a Monday,       *)
(* last_sunday is six days later and a Sunday, and the window is the       *)
(* calendar week right before the week of the run date: last_sunday is the *)
(* day before the Monday of the run date's week, so neither the run date   *)
(* nor any other day of the current week is inside the window.             *)
(***************************************************************************)
\* 2024-12-23, a Monday
KnownMonday == FirstRunDay - 5

DaysSinceMonday(ordinal) == (ordinal - KnownMonday) % 7

MondayOfWeek(ordinal) == ordinal - DaysSinceMonday(ordinal)

C5_PreviousCalendarWeek ==
    today # NoDate =>
        /\ DaysSinceMonday(last_monday.ord) = 0
        /\ last_sunday.ord = last_monday.ord + 6
        /\ DaysSinceMonday(last_sunday.ord) = 6
        /\ last_sunday.ord = MondayOfWeek(today.ord) - 1
        /\ \A d \in MondayOfWeek(today.ord)..(MondayOfWeek(today.ord) + 6) :
              ~(last_monday.ord <= d /\ d <= last_sunday.ord)
        /\ params[2] = StrftimeYmd([ord |-> MondayOfWeek(today.ord) - 7, sec |-> 0])
        /\ params[3] = StrftimeYmd([ord |-> MondayOfWeek(today.ord) - 1, sec |-> 0])

\* a run on a Wednesday, late in the evening
C5_Witness ==
    /\ op = "ListHandler.list_items" /\ DaysSinceMonday(today.ord) = 2
    /\ today.sec = 86399 /\ params[2] = "2024-12-23" /\ params[3] = "2024-12-29"

(***************************************************************************)
(* C6.  A header, cell value or section title from the database is in the  *)
(* generated document only in HTML-escaped form; a value with markup       *)
(* characters is never there verbatim.                                     *)
(***************************************************************************)
EscapeAtom(a) ==
    CASE a = "<" -> "&lt;"
      [] a = ">" -> "&gt;"
      [] a = "&" -> "&amp;"
      [] OTHER   -> a

HtmlEscape(text) == [i \in 1..Len(text) |-> EscapeAtom(text[i])]

HasMarkup(text) == \E i \in 1..Len(text) : text[i] \in {"<", ">", "&"}

C6_ValuesEscaped ==
    (op \in GenerateOps /\ outcome = "return") =>
        \A i \in 1..Len(sections) : \A r \in 1..Len(sections[i].rows) :
            \A j \in 1..Len(sections[i].rows[r]) :
                LET text == PyStr(sections[i].rows[r][j].v)
                IN  HasMarkup(text) => ~Contains(html, text)

(***************************************************************************)
(* C2.  A run of process() in which neither the database nor the mail      *)
(* transport reports an error ends normally, having handed two emails to   *)
(* send_email: first the 'manuel' one, then the 'successful' one, each     *)
(* with the subject "Journalisering - Solteq Tand - {title} d. {date}".    *)
(***************************************************************************)
NoCollaboratorError ==
    /\ exc \notin {"pyodbc.Error", "SMTPException", "UnboundLocalError"}
    /\ "Database error:" \notin Range(log)

C2_TwoEmailsThenDone ==
    (op = "process" /\ pc \in {"done", "raised"} /\ NoCollaboratorError) =>
        /\ pc = "done"
        /\ Len(sent) = 2
        /\ sent[1].list_type = "manuel" /\ sent[2].list_type = "successful"
        /\ \A k \in 1..2 : sent[k].subject[1] = "Journalisering - Solteq Tand - "

(***************************************************************************)
(* C10.  In process() an email for a list type is handed to send_email     *)
(* only after that list type's report was generated; and once constructing *)
(* the handler, generating the report or sending the email has raised, the *)
(* exception leaves process(): nothing is called after it and no email is  *)
(* sent for a later list type.                                             *)
(***************************************************************************)
C10_RaiseEndsTheRun ==
    /\ \A k \in 1..Len(trace) :
          trace[k].call = "send_email" =>
              \E g \in 1..(k - 1) :
                  trace[g] = Event("generate_list", trace[k].list_type)
    /\ \A k \in 1..Len(trace) :
          trace[k].call = "raise" =>
              /\ k = Len(trace)
              /\ pc = "raised" /\ outcome = "raise" /\ exc # "none"
              /\ \A m \in 1..Len(sent) :
                    \E t \in 1..Len(list_types) :
                        /\ list_types[t] = sent[m].list_type
                        /\ list_types[idx] = trace[k].list_type
                        /\ t < idx

C10_Witness ==
    /\ pc = "raised" /\ exc = "TypeError" /\ idx = 1 /\ sent = <<>>
    /\ trace[Len(trace)] = Event("raise", "manuel")

====
